---- MODULE Spec2Model ----
(***************************************************************************)
(* Job pipeline orchestrator of the subtitle generator (backend/main.py).  *)
(*                                                                         *)
(* The registry active_jobs is a dict of dicts.  A background task keeps a *)
(* reference to its job's dict (job = active_jobs[job_id]), so the dict    *)
(* outlives its registry entry: `jobs` is the heap of job dicts and        *)
(* `active_jobs` the set of keys currently in the registry.  Ids are       *)
(* uuid4 values, so an id is never registered twice.                       *)
(*                                                                         *)
(* The server runs on one asyncio event loop: the code between two awaits  *)
(* that really suspend is one atomic step.  A request handler is one step, *)
(* a background task (BackgroundTasks.add_task) runs after the response    *)
(* has been sent and is one step per stretch between its awaits.           *)
(*                                                                         *)
(*   active_jobs  keys of the registry                                     *)
(*   jobs         the job dicts, by id                                     *)
(*   tasks        bag of the background tasks scheduled and not returned   *)
(*   scheduled    per job and task function, the add_task calls so far     *)
(*   cleanups     ids whose download response is being streamed            *)
(*   response     what the step just taken returned to its caller, or, for *)
(*                a background step, what it logged                        *)
(*   call         the activation record of one call of a service function  *)
(*                (segment normalizer, batch translation, hallucination    *)
(*                filter) taken on its own: its arguments, its locals and, *)
(*                once it has returned, its result.  The orchestrator      *)
(*                specification leaves it alone.                           *)
(***************************************************************************)
EXTENDS Integers, Sequences, FiniteSets, Bags, TLC

VARIABLES active_jobs, jobs, tasks, scheduled, cleanups, response, call

vars == <<active_jobs, jobs, tasks, scheduled, cleanups, response, call>>

\* ---------------------------------------------------------------- bounds
\* Number of background tasks scheduled (add_task calls) over the whole run.
MaxTasks == 4

\* ---------------------------------------------------------------- values
JobIds == {"j1", "j2"}
\* The ids the requests of Spec are made for.
OneJob == {"j1"}

\* An optional value: a missing dict key or Python None is <<>>.
None == <<>>
Some(x) == <<x>>
IsNone(o) == o = <<>>
Get(o) == o[1]

Filenames == {"clip.mp4", "clip"}
\* target_language form field; with the source languages below it is equal to
\* the job's source language ("es" passed with the start request) or differs
\* from it ("en" detected).
Languages == {"es"}
\* source_language form field: Optional[str] = Form(None)
SourceLanguageArgs == {None, Some("es")}
\* detected_language of the transcription engine result: _convert_groq_result
\* fills it with result.get('language', expected_language or 'en').
DetectedLanguages == {Some("en")}

\* Segment texts; a segment list is a sequence of texts (timing is left to
\* the normalizer).  The engine hears "hello"; the user sends back no
\* segment or the edited text "hi".
SegmentLists == {<<>>, <<"hi">>}
TranslatedTexts == {"hola", ""}

\* What transcribe_audio returns.
TranscriptionResults ==
    [segments : {<<"hello">>}, detected_language : DetectedLanguages]

\* The JSON body of /transcription/{job_id}/continue.  wellformed = FALSE
\* is a dict lacking a key read at lines 265-279.
NoPayload == [wellformed |-> FALSE, segments |-> <<>>]
Payloads == {NoPayload} \cup [wellformed : {TRUE}, segments : SegmentLists]

\* What the continuation raises on a payload that lacks a key it reads.
MalformedPayload == "KeyError: edited_transcription"

\* job["..."] of a job dict; a key the dict lacks is None.
NoJob ==
    [status |-> "<unallocated>", progress |-> 0, filename |-> None,
     video_data |-> None, target_language |-> None, source_language |-> None,
     transcription_result |-> None, result_video |-> None, error |-> None]

ProcessingStatus ==
    {"uploaded", "extracting_audio", "transcribing", "transcription_complete",
     "translating", "generating_subtitles", "rendering_video", "completed",
     "failed"}

\* No service function is being called on its own.
NoCall == [fn |-> "<none>"]

NoResponse == [op |-> "<none>", job_id |-> "", status_code |-> 0, detail |-> "", body |-> None]

\* raise HTTPException(status_code, detail) inside `try: ... except Exception
\* as e: raise HTTPException(status_code=500, detail=str(e))`: HTTPException is
\* an Exception, so the handler's own 404/400 is caught and re-raised as a 500
\* whose detail is str(e) = "<status_code>: <detail>".
HTTPError(op, j, code, detail) ==
    [op |-> op, job_id |-> j, status_code |-> code, detail |-> detail, body |-> None]

Ok(op, j, body) ==
    [op |-> op, job_id |-> j, status_code |-> 200, detail |-> "", body |-> Some(body)]

JobNotFound(op, j) == HTTPError(op, j, 500, "404: Job not found")

\* ---------------------------------------------------------------- tasks
\* A scheduled background task: its arguments, its position (pc) and locals.
\* stages lists the stages of the task that have returned without raising.
\* (process_video_background never reads its target_language argument, and
\* its video_data argument only feeds the extraction.)
NewTask(kind, j, sl, payload) ==
    [kind |-> kind, job_id |-> j, pc |-> "pending", source_language |-> sl,
     target_language |-> None, edited_transcription |-> payload, video_data |-> None,
     segments |-> <<>>, srt_content |-> <<>>, stages |-> <<>>]

TaskKinds == {"process_video_background", "continue_processing_after_transcription"}

\* Number of add_task calls so far.
Scheduled ==
    LET RECURSIVE Sum(_)
        Sum(S) == IF S = {} THEN 0
                  ELSE LET x == CHOOSE x \in S : TRUE
                       IN  scheduled[x[1]][x[2]] + Sum(S \ {x})
    IN  Sum(JobIds \X TaskKinds)

\* background_tasks.add_task(f, job_id, ...)
add_task(task) ==
    /\ tasks' = tasks (+) SetToBag({task})
    /\ scheduled' = [scheduled EXCEPT ![task.job_id][task.kind] = @ + 1]

\* A variant of the except clause that leaves the progress where it was.
Failed_keeps_progress(j, job, msg) ==
    IF j \in active_jobs
    THEN [job EXCEPT !.status = "failed", !.error = Some(msg)]
    ELSE job

\* except Exception as e: if job_id in active_jobs: status/error/progress.
\* active_jobs[job_id] is the dict the task holds, when it is still registered.
Failed(j, job, msg) ==
    IF j \in active_jobs
    THEN [job EXCEPT !.status = "failed", !.error = Some(msg), !.progress = 0]
    ELSE job

\* What a background step leaves in the log: the step (its task's position,
\* the stages behind it and the languages it holds), what it did to the job
\* dict, in order (a value assigned to job["status"]; "result_video" for the
\* assignment of job["result_video"]; "del video_data" and "del
\* transcription_result" for the deletions), and the message of the exception
\* it caught.
Logged(task, detail, writes) ==
    [op |-> task.kind, job_id |-> task.job_id, status_code |-> 0, detail |-> detail,
     body |-> Some([pc |-> task.pc, stages |-> task.stages,
                    source_language |-> task.source_language,
                    target_language |-> task.target_language,
                    writes |-> writes])]

\* Task `task` runs up to its next await and becomes `next`.
Await(task, next, job, writes) ==
    /\ tasks' = (tasks (-) SetToBag({task})) (+) SetToBag({next})
    /\ jobs' = [jobs EXCEPT ![task.job_id] = job]
    /\ response' = Logged(task, "", writes)
    /\ UNCHANGED <<active_jobs, scheduled, cleanups>>

\* Task `task` runs to its end.
Return(task, job, writes) ==
    /\ tasks' = tasks (-) SetToBag({task})
    /\ jobs' = [jobs EXCEPT ![task.job_id] = job]
    /\ response' = Logged(task, "", writes)
    /\ UNCHANGED <<active_jobs, scheduled, cleanups>>

\* A variant of the except clause that does not test `job_id in active_jobs`
\* and puts the failed dict under the id whether it is registered or not.
Raise_registering(task, job, msg, writes) ==
    /\ tasks' = tasks (-) SetToBag({task})
    /\ jobs' = [jobs EXCEPT ![task.job_id] =
                   [job EXCEPT !.status = "failed", !.error = Some(msg), !.progress = 0]]
    /\ active_jobs' = active_jobs \cup {task.job_id}
    /\ response' = Logged(task, msg, Append(writes, "failed"))
    /\ UNCHANGED <<scheduled, cleanups>>

\* Task `task` raises msg with its job dict as `job`: the except clause.
Raise(task, job, msg, writes) ==
    /\ tasks' = tasks (-) SetToBag({task})
    /\ jobs' = [jobs EXCEPT ![task.job_id] = Failed(task.job_id, job, msg)]
    /\ response' = Logged(task, msg,
            IF task.job_id \in active_jobs THEN Append(writes, "failed") ELSE writes)
    /\ UNCHANGED <<active_jobs, scheduled, cleanups>>

Init ==
    /\ active_jobs = {}
    /\ jobs = [j \in JobIds |-> NoJob]
    /\ tasks = EmptyBag
    /\ scheduled = [j \in JobIds |-> [k \in TaskKinds |-> 0]]
    /\ cleanups = {}
    /\ response = NoResponse
    /\ call = NoCall

\* ------------------------------------------------------- request handlers
\* POST /upload.  content_ok: the content type and size checks pass.
upload_video(j, filename, content_ok) ==
    /\ jobs[j] = NoJob
    /\ IF content_ok
       THEN /\ active_jobs' = active_jobs \cup {j}
            /\ jobs' = [jobs EXCEPT ![j] =
                   [NoJob EXCEPT !.status = "uploaded", !.filename = Some(filename),
                                 !.video_data = Some("video"), !.progress = 0]]
            /\ response' = Ok("upload", j, [status |-> "uploaded"])
       ELSE /\ response' = HTTPError("upload", "", 500, "400: File must be a video")
            /\ UNCHANGED <<active_jobs, jobs>>
    /\ UNCHANGED <<tasks, scheduled, cleanups>>

\* A variant of POST /process/{job_id} that also restarts a failed job.
process_video_restarts_failed(j, target_language, source_language) ==
    /\ (j \in active_jobs /\ jobs[j].status \in {"uploaded", "failed"})
           => Scheduled < MaxTasks
    /\ IF j \notin active_jobs
       THEN /\ response' = JobNotFound("process", j)
            /\ UNCHANGED <<jobs, tasks, scheduled>>
       ELSE IF jobs[j].status \notin {"uploaded", "failed"}
       THEN /\ response' = HTTPError("process", j, 500, "400: Job not ready for processing")
            /\ UNCHANGED <<jobs, tasks, scheduled>>
       ELSE /\ jobs' = [jobs EXCEPT ![j].target_language = Some(target_language)]
            /\ add_task(NewTask("process_video_background", j, source_language, NoPayload))
            /\ response' = Ok("process", j, [status |-> "processing_started"])
    /\ UNCHANGED <<active_jobs, cleanups>>

\* POST /process/{job_id}
process_video(j, target_language, source_language) ==
    /\ (j \in active_jobs /\ jobs[j].status = "uploaded") => Scheduled < MaxTasks
    /\ IF j \notin active_jobs
       THEN /\ response' = JobNotFound("process", j)
            /\ UNCHANGED <<jobs, tasks, scheduled>>
       ELSE IF jobs[j].status # "uploaded"
       THEN /\ response' = HTTPError("process", j, 500, "400: Job not ready for processing")
            /\ UNCHANGED <<jobs, tasks, scheduled>>
       ELSE /\ jobs' = [jobs EXCEPT ![j].target_language = Some(target_language)]
            /\ add_task(NewTask("process_video_background", j, source_language, NoPayload))
            /\ response' = Ok("process", j, [status |-> "processing_started"])
    /\ UNCHANGED <<active_jobs, cleanups>>

\* GET /status/{job_id}
get_job_status(j) ==
    /\ IF j \notin active_jobs
       THEN response' = JobNotFound("status", j)
       ELSE response' = Ok("status", j,
                [status |-> jobs[j].status, progress |-> jobs[j].progress,
                 message |-> IF IsNone(jobs[j].error) THEN "" ELSE Get(jobs[j].error)])
    /\ UNCHANGED <<active_jobs, jobs, tasks, scheduled, cleanups>>

\* A variant of GET /transcription/{job_id} that reports a job that is not at
\* the checkpoint as not found.
get_transcription_unready_as_missing(j) ==
    /\ IF j \notin active_jobs \/ jobs[j].status # "transcription_complete"
       THEN response' = JobNotFound("transcription", j)
       ELSE response' = Ok("transcription", j,
                [transcription |-> Get(jobs[j].transcription_result),
                 source_language |-> Get(jobs[j].source_language),
                 target_language |-> Get(jobs[j].target_language)])
    /\ UNCHANGED <<active_jobs, jobs, tasks, scheduled, cleanups>>

\* A variant of GET /transcription/{job_id} that still serves the transcription
\* while the job is being translated.
get_transcription_while_translating(j) ==
    /\ IF j \notin active_jobs
       THEN response' = JobNotFound("transcription", j)
       ELSE IF jobs[j].status \notin {"transcription_complete", "translating"}
       THEN response' = HTTPError("transcription", j, 500,
                                  "400: Transcription not ready for review")
       ELSE IF \/ IsNone(jobs[j].transcription_result)
               \/ IsNone(jobs[j].source_language)
               \/ IsNone(jobs[j].target_language)
       THEN response' = HTTPError("transcription", j, 500, "KeyError")
       ELSE response' = Ok("transcription", j,
                [transcription |-> Get(jobs[j].transcription_result),
                 source_language |-> Get(jobs[j].source_language),
                 target_language |-> Get(jobs[j].target_language)])
    /\ UNCHANGED <<active_jobs, jobs, tasks, scheduled, cleanups>>

\* GET /transcription/{job_id}
get_transcription(j) ==
    /\ IF j \notin active_jobs
       THEN response' = JobNotFound("transcription", j)
       ELSE IF jobs[j].status # "transcription_complete"
       THEN response' = HTTPError("transcription", j, 500,
                                  "400: Transcription not ready for review")
       ELSE IF \/ IsNone(jobs[j].transcription_result)
               \/ IsNone(jobs[j].source_language)
               \/ IsNone(jobs[j].target_language)
       THEN response' = HTTPError("transcription", j, 500, "KeyError")
       ELSE response' = Ok("transcription", j,
                [transcription |-> Get(jobs[j].transcription_result),
                 source_language |-> Get(jobs[j].source_language),
                 target_language |-> Get(jobs[j].target_language)])
    /\ UNCHANGED <<active_jobs, jobs, tasks, scheduled, cleanups>>

\* A variant of POST /transcription/{job_id}/continue without the status check.
continue_with_transcription_unchecked(j, transcription) ==
    /\ j \in active_jobs => Scheduled < MaxTasks
    /\ IF j \notin active_jobs
       THEN /\ response' = JobNotFound("continue", j)
            /\ UNCHANGED <<tasks, scheduled>>
       ELSE /\ add_task(NewTask("continue_processing_after_transcription", j, None,
                                transcription))
            /\ response' = Ok("continue", j, [status |-> "processing_continued"])
    /\ UNCHANGED <<active_jobs, jobs, cleanups>>

\* POST /transcription/{job_id}/continue
continue_with_transcription(j, transcription) ==
    /\ (j \in active_jobs /\ jobs[j].status = "transcription_complete")
           => Scheduled < MaxTasks
    /\ IF j \notin active_jobs
       THEN /\ response' = JobNotFound("continue", j)
            /\ UNCHANGED <<tasks, scheduled>>
       ELSE IF jobs[j].status # "transcription_complete"
       THEN /\ response' = HTTPError("continue", j, 500,
                                     "400: Job not ready for transcription continuation")
            /\ UNCHANGED <<tasks, scheduled>>
       ELSE /\ add_task(NewTask("continue_processing_after_transcription", j, None,
                                transcription))
            /\ response' = Ok("continue", j, [status |-> "processing_continued"])
    /\ UNCHANGED <<active_jobs, jobs, cleanups>>

\* original_filename.rsplit('.', 1)
rsplit(filename) ==
    IF filename = "clip.mp4" THEN <<"clip", "mp4">> ELSE <<filename>>

\* GET /download/{job_id}: the handler; the purge runs later, when the
\* response body has been streamed (generate -> cleanup_job).
download_video(j) ==
    /\ IF j \notin active_jobs
       THEN /\ response' = JobNotFound("download", j)
            /\ UNCHANGED cleanups
       ELSE IF jobs[j].status # "completed"
       THEN /\ response' = HTTPError("download", j, 500, "400: Job not completed yet")
            /\ UNCHANGED cleanups
       ELSE IF IsNone(jobs[j].result_video)
       THEN /\ response' = HTTPError("download", j, 500, "404: Processed video not found")
            /\ UNCHANGED cleanups
       ELSE IF Len(rsplit(Get(jobs[j].filename))) # 2
       THEN /\ response' = HTTPError("download", j, 500,
                                     "not enough values to unpack (expected 2, got 1)")
            /\ UNCHANGED cleanups
       ELSE /\ response' = Ok("download", j,
                   [video_bytes |-> Get(jobs[j].result_video),
                    filename |-> rsplit(Get(jobs[j].filename))])
            /\ cleanups' = cleanups \cup {j}
    /\ UNCHANGED <<active_jobs, jobs, tasks, scheduled>>

\* A variant of the purge that empties the registry.
cleanup_job_clearing_registry(j) ==
    /\ j \in cleanups
    /\ cleanups' = cleanups \ {j}
    /\ active_jobs' = {}
    /\ response' = NoResponse
    /\ UNCHANGED <<jobs, tasks, scheduled>>

\* download_video.generate: after the bytes have been yielded, cleanup_job.
cleanup_job(j) ==
    /\ j \in cleanups
    /\ cleanups' = cleanups \ {j}
    /\ active_jobs' = active_jobs \ {j}
    /\ response' = NoResponse
    /\ UNCHANGED <<jobs, tasks, scheduled>>

\* A variant of GET /video/preview/{job_id} that purges the job like a download.
preview_video_purging(j) ==
    /\ IF j \notin active_jobs
       THEN response' = JobNotFound("preview", j)
       ELSE IF jobs[j].status # "completed"
       THEN response' = HTTPError("preview", j, 500, "400: Job not completed yet")
       ELSE IF IsNone(jobs[j].result_video)
       THEN response' = HTTPError("preview", j, 500, "404: Processed video not found")
       ELSE response' = Ok("preview", j, [video_bytes |-> Get(jobs[j].result_video)])
    /\ active_jobs' = IF j \in active_jobs /\ jobs[j].status = "completed"
                      THEN active_jobs \ {j} ELSE active_jobs
    /\ UNCHANGED <<jobs, tasks, scheduled, cleanups>>

\* GET /video/preview/{job_id}
preview_video(j) ==
    /\ IF j \notin active_jobs
       THEN response' = JobNotFound("preview", j)
       ELSE IF jobs[j].status # "completed"
       THEN response' = HTTPError("preview", j, 500, "400: Job not completed yet")
       ELSE IF IsNone(jobs[j].result_video)
       THEN response' = HTTPError("preview", j, 500, "404: Processed video not found")
       ELSE response' = Ok("preview", j, [video_bytes |-> Get(jobs[j].result_video)])
    /\ UNCHANGED <<active_jobs, jobs, tasks, scheduled, cleanups>>

\* ------------------------------------------------------- background tasks
\* process_video_background, lines 120-133: up to the await of _extract_audio.
process_video_background(task) ==
    LET j == task.job_id
        job == jobs[j]
    IN  /\ task.kind = "process_video_background"
        /\ task.pc = "pending"
        /\ IF j \notin active_jobs
           THEN \* job = active_jobs[job_id] raises KeyError
                Raise(task, job, "KeyError: job_id", <<>>)
           ELSE Await(task, [task EXCEPT !.pc = "extract_audio"],
                      [job EXCEPT !.progress = 20, !.status = "extracting_audio"],
                      <<"extracting_audio">>)

\* A variant in which the task is suspended between the two writes that follow
\* the audio extraction: the status is written, the progress is not yet.
extract_audio_returns_status_only(task, returncode) ==
    LET j == task.job_id
        job == jobs[j]
    IN  /\ task.kind = "process_video_background"
        /\ task.pc = "extract_audio"
        /\ IF returncode # 0
           THEN Raise(task, job, "Audio extraction failed", <<>>)
           ELSE Await(task,
                      [task EXCEPT !.pc = "transcribe_audio",
                                   !.stages = Append(@, "extract_audio")],
                      [job EXCEPT !.status = "transcribing"], <<"transcribing">>)

\* _extract_audio returns (ffmpeg exit status 0) or raises; lines 133-142.
extract_audio_returns(task, returncode) ==
    LET j == task.job_id
        job == jobs[j]
    IN  /\ task.kind = "process_video_background"
        /\ task.pc = "extract_audio"
        /\ IF returncode # 0
           THEN Raise(task, job, "Audio extraction failed", <<>>)
           ELSE Await(task,
                      [task EXCEPT !.pc = "transcribe_audio",
                                   !.stages = Append(@, "extract_audio")],
                      [job EXCEPT !.progress = 50, !.status = "transcribing"],
                      <<"transcribing">>)

\* transcribe_audio returns a result or raises; lines 139-168.
\* result = None: the engine call raised.
transcribe_audio_returns(task, result) ==
    LET j == task.job_id
        job == jobs[j]
    IN  /\ task.kind = "process_video_background"
        /\ task.pc = "transcribe_audio"
        /\ IF IsNone(result)
           THEN Raise(task, job, "Transcription failed", <<>>)
           ELSE LET transcription_result == Get(result)
                    source_language ==
                        IF ~IsNone(task.source_language) THEN Get(task.source_language)
                        ELSE IF ~IsNone(transcription_result.detected_language)
                             THEN Get(transcription_result.detected_language)
                             ELSE "en"
                IN  Return(task,
                           [job EXCEPT !.transcription_result = Some(transcription_result),
                                       !.source_language = Some(source_language),
                                       !.status = "transcription_complete",
                                       !.progress = 60],
                           <<"transcription_complete">>)

\* str.lower() on the language codes in use.
lower(code) == IF code = "EN" THEN "en" ELSE IF code = "ES" THEN "es" ELSE code

\* SubtitleService.generate_srt_content on a list of segment texts: the
\* normalizer drops blank segments, the rest are numbered from 1.
generate_srt_content(segments) ==
    LET kept == SelectSeq(segments, LAMBDA text : text # "")
    IN  [i \in 1..Len(kept) |-> [index |-> i, text |-> kept[i]]]

\* _render_video_to_bytes: the rendered bytes are the video with the subtitles.
render_video_to_bytes(video_data, srt_content) ==
    [video |-> video_data, subtitles |-> srt_content]

\* A variant of the subtitle stage that reports the job completed as soon as the
\* render is awaited.
generate_subtitles_completes_early(task, running, job, final_segments, written) ==
    LET generating == [job EXCEPT !.status = "generating_subtitles", !.progress = 80]
        srt_content == generate_srt_content(final_segments)
    IN  IF IsNone(generating.video_data)
        THEN Raise(task, generating, "'video_data'",
                   Append(written, "generating_subtitles"))
        ELSE Await(task,
                   [running EXCEPT !.pc = "render_video",
                                   !.segments = final_segments,
                                   !.srt_content = srt_content,
                                   !.video_data = generating.video_data,
                                   !.stages = Append(@, "generate_srt_content")],
                   [generating EXCEPT !.status = "completed", !.progress = 100],
                   written \o <<"generating_subtitles", "completed">>)

\* continue_processing_after_transcription, lines 301-320: from the final
\* transcription up to the await of _render_video_to_bytes.  running: the
\* task with its locals as they are by now; written: the statuses the step has
\* assigned before.
generate_subtitles(task, running, job, final_segments, written) ==
    LET generating == [job EXCEPT !.status = "generating_subtitles", !.progress = 80]
        srt_content == generate_srt_content(final_segments)
    IN  IF IsNone(generating.video_data)
        THEN \* video_data = job["video_data"] raises KeyError
             Raise(task, generating, "'video_data'",
                   Append(written, "generating_subtitles"))
        ELSE Await(task,
                   [running EXCEPT !.pc = "render_video",
                                   !.segments = final_segments,
                                   !.srt_content = srt_content,
                                   !.video_data = generating.video_data,
                                   !.stages = Append(@, "generate_srt_content")],
                   [generating EXCEPT !.status = "rendering_video", !.progress = 90],
                   written \o <<"generating_subtitles", "rendering_video">>)

\* A variant of the continuation that sends the segments to the translation
\* engine whatever the languages are.
continue_processing_always_translating(task) ==
    LET j == task.job_id
        job == jobs[j]
        edited_transcription == task.edited_transcription
        translating == [job EXCEPT !.status = "translating", !.progress = 70]
        running == [task EXCEPT !.source_language = job.source_language,
                                !.target_language = job.target_language]
    IN  /\ task.kind = "continue_processing_after_transcription"
        /\ task.pc = "pending"
        /\ IF j \notin active_jobs
           THEN Raise(task, job, "KeyError: job_id", <<>>)
           ELSE IF ~edited_transcription.wellformed
           THEN Raise(task, job, MalformedPayload, <<>>)
           ELSE IF IsNone(job.source_language) \/ IsNone(job.target_language)
           THEN Raise(task, translating, "KeyError: language", <<"translating">>)
           ELSE LET source_language == Get(job.source_language)
                    target_language == Get(job.target_language)
                    segments == edited_transcription.segments
                IN  IF TRUE
                    THEN IF segments = <<>>
                         THEN \* translate_segments returns without an engine call
                              generate_subtitles(task,
                                  [running EXCEPT !.stages = <<"translate_segments">>],
                                  translating, segments, <<"translating">>)
                         ELSE Await(task, [running EXCEPT !.pc = "translate_segments"],
                                    translating, <<"translating">>)
                    ELSE generate_subtitles(task, running, translating, segments,
                                            <<"translating">>)

\* continue_processing_after_transcription, lines 257-299: up to the first
\* await that suspends (the engine call of translate_segments), or, when
\* translate_segments is not called or returns without calling the engine,
\* on to the await of the render.
continue_processing_after_transcription(task) ==
    LET j == task.job_id
        job == jobs[j]
        edited_transcription == task.edited_transcription
        translating == [job EXCEPT !.status = "translating", !.progress = 70]
        running == [task EXCEPT !.source_language = job.source_language,
                                !.target_language = job.target_language]
    IN  /\ task.kind = "continue_processing_after_transcription"
        /\ task.pc = "pending"
        /\ IF j \notin active_jobs
           THEN Raise(task, job, "KeyError: job_id", <<>>)
           ELSE IF ~edited_transcription.wellformed
           THEN Raise(task, job, MalformedPayload, <<>>)
           ELSE IF IsNone(job.source_language) \/ IsNone(job.target_language)
           THEN Raise(task, translating, "KeyError: language", <<"translating">>)
           ELSE LET source_language == Get(job.source_language)
                    target_language == Get(job.target_language)
                    segments == edited_transcription.segments
                IN  IF source_language # target_language
                    THEN IF lower(source_language) = lower(target_language)
                            \/ segments = <<>>
                         THEN \* translate_segments returns without an engine call
                              generate_subtitles(task,
                                  [running EXCEPT !.stages = <<"translate_segments">>],
                                  translating, segments, <<"translating">>)
                         ELSE Await(task, [running EXCEPT !.pc = "translate_segments"],
                                    translating, <<"translating">>)
                    ELSE generate_subtitles(task, running, translating, segments,
                                            <<"translating">>)

\* What _parse_batch_translation can make of an engine response: each segment
\* keeps its text (no marker for it) or takes the text after its marker.
TranslationsOf(segments) ==
    {translated \in [1..Len(segments) ->
                        TranslatedTexts \cup {segments[i] : i \in 1..Len(segments)}] :
        \A i \in 1..Len(segments) :
            translated[i] \in TranslatedTexts \cup {segments[i]}}

\* translate_segments returns the translated segments or raises (engine
\* failure); lines 288-320.  translated_segments = None: it raised.
translate_segments_returns(task, translated_segments) ==
    LET j == task.job_id
        job == jobs[j]
    IN  /\ task.kind = "continue_processing_after_transcription"
        /\ task.pc = "translate_segments"
        /\ IF IsNone(translated_segments)
           THEN Raise(task, job, "Segment translation failed", <<>>)
           ELSE generate_subtitles(task,
                    [task EXCEPT !.stages = Append(@, "translate_segments")],
                    job, Get(translated_segments), <<>>)

\* _render_video_to_bytes returns (ffmpeg exit status 0) or raises; lines
\* 320-339.  del job["video_data"] / del job["transcription_result"] raise
\* KeyError when another task has already deleted the key.
render_video_returns(task, returncode) ==
    LET j == task.job_id
        job == jobs[j]
        completed == [job EXCEPT
            !.status = "completed", !.progress = 100,
            !.result_video =
                Some(render_video_to_bytes(Get(task.video_data), task.srt_content))]
    IN  /\ task.kind = "continue_processing_after_transcription"
        /\ task.pc = "render_video"
        /\ IF returncode # 0
           THEN Raise(task, job, "video rendering failed", <<>>)
           ELSE IF IsNone(completed.video_data)
           THEN Raise(task, completed, "'video_data'", <<"completed", "result_video">>)
           ELSE IF IsNone(completed.transcription_result)
           THEN Raise(task, [completed EXCEPT !.video_data = None],
                      "'transcription_result'",
                      <<"completed", "result_video", "del video_data">>)
           ELSE Return(task, [completed EXCEPT !.video_data = None,
                                               !.transcription_result = None],
                       <<"completed", "result_video", "del video_data",
                         "del transcription_result">>)

\* ------------------------------------------------------------ next state
ReturnCodes == {0, 1}

Tasks == BagToSet(tasks)

Next ==
    \/ \E j \in OneJob, filename \in Filenames, content_ok \in BOOLEAN :
           upload_video(j, filename, content_ok) /\ UNCHANGED call
    \/ \E j \in OneJob, tl \in Languages, sl \in SourceLanguageArgs :
           process_video(j, tl, sl) /\ UNCHANGED call
    \/ \E j \in OneJob : get_job_status(j) /\ UNCHANGED call
    \/ \E j \in OneJob : get_transcription(j) /\ UNCHANGED call
    \/ \E j \in OneJob, transcription \in Payloads :
           continue_with_transcription(j, transcription) /\ UNCHANGED call
    \/ \E j \in OneJob : download_video(j) /\ UNCHANGED call
    \/ \E j \in OneJob : cleanup_job(j) /\ UNCHANGED call
    \/ \E j \in OneJob : preview_video(j) /\ UNCHANGED call
    \/ \E task \in Tasks : process_video_background(task) /\ UNCHANGED call
    \/ \E task \in Tasks, returncode \in ReturnCodes :
           extract_audio_returns(task, returncode) /\ UNCHANGED call
    \/ \E task \in Tasks, result \in {None} \cup {Some(r) : r \in TranscriptionResults} :
           transcribe_audio_returns(task, result) /\ UNCHANGED call
    \/ \E task \in Tasks : continue_processing_after_transcription(task) /\ UNCHANGED call
    \/ \E task \in Tasks :
           \E translated \in {None} \cup
                   {Some(s) : s \in TranslationsOf(task.edited_transcription.segments)} :
               translate_segments_returns(task, translated) /\ UNCHANGED call
    \/ \E task \in Tasks, returncode \in ReturnCodes :
           render_video_returns(task, returncode) /\ UNCHANGED call

Spec == Init /\ [][Next]_vars

\* The background steps run whenever they can: the event loop runs every
\* scheduled task, and every awaited collaborator call returns or raises.
Background ==
    \/ \E task \in Tasks : process_video_background(task) /\ UNCHANGED call
    \/ \E task \in Tasks, returncode \in ReturnCodes :
           extract_audio_returns(task, returncode) /\ UNCHANGED call
    \/ \E task \in Tasks, result \in {None} \cup {Some(r) : r \in TranscriptionResults} :
           transcribe_audio_returns(task, result) /\ UNCHANGED call
    \/ \E task \in Tasks : continue_processing_after_transcription(task) /\ UNCHANGED call
    \/ \E task \in Tasks :
           \E translated \in {None} \cup
                   {Some(s) : s \in TranslationsOf(task.edited_transcription.segments)} :
               translate_segments_returns(task, translated) /\ UNCHANGED call
    \/ \E task \in Tasks, returncode \in ReturnCodes :
           render_video_returns(task, returncode) /\ UNCHANGED call

FairSpec == Spec /\ WF_vars(Background)

\* ------------------------------------------------------------ properties
PROCESS == "process_video_background"
CONTINUE == "continue_processing_after_transcription"

\* The step just taken was request op for job j and was accepted.
Accepted(op, j) ==
    response.op = op /\ response.job_id = j /\ response.status_code = 200

\* The stages a continuation holding these languages has behind it when it
\* awaits the render.
ChainBehind(held) ==
    IF held.source_language # held.target_language
    THEN <<"translate_segments", "generate_srt_content">>
    ELSE <<"generate_srt_content">>

\* C1: a registered job whose status is "completed" holds the rendered bytes, and
\* its status only ever becomes "completed" in the step in which the render of a
\* continuation task of that job returns with exit status 0, that task having
\* translate_segments (when the languages it read from the job differ) and
\* generate_srt_content behind it in this order; a continuation is only scheduled at the checkpoint,
\* and the checkpoint is only reached by the step in which transcribe_audio
\* returns to a task that has the audio extraction behind it.
C1_CompletedOnlyAfterWholeChain ==
    /\ [](\A j \in active_jobs :
            jobs[j].status = "completed" => ~IsNone(jobs[j].result_video))
    /\ [][\A j \in active_jobs' :
            /\ (jobs'[j].status = "completed" /\ jobs[j].status # "completed") =>
                  /\ response'.op = CONTINUE
                  /\ response'.job_id = j
                  /\ response'.detail = ""
                  /\ Get(response'.body).pc = "render_video"
                  /\ Get(response'.body).stages = ChainBehind(Get(response'.body))
                  /\ ~IsNone(Get(response'.body).source_language)
                  /\ ~IsNone(Get(response'.body).target_language)
                  /\ scheduled[j][CONTINUE] >= 1
                  /\ ~IsNone(jobs'[j].result_video)
            /\ (scheduled'[j][CONTINUE] > scheduled[j][CONTINUE]) =>
                  /\ j \in active_jobs
                  /\ jobs[j].status = "transcription_complete"
            /\ (jobs'[j].status = "transcription_complete"
                    /\ jobs[j].status # "transcription_complete") =>
                  /\ response'.op = PROCESS
                  /\ response'.job_id = j
                  /\ response'.detail = ""
                  /\ Get(response'.body).pc = "transcribe_audio"
                  /\ Get(response'.body).stages = <<"extract_audio">>
         ]_vars

C1_Witness ==
    /\ "j1" \in active_jobs
    /\ jobs["j1"].status = "completed"
    /\ ~IsNone(jobs["j1"].result_video)
    /\ response.op = CONTINUE
    /\ response.detail = ""
    /\ Get(response.body).pc = "render_video"
    /\ Get(response.body).stages = <<"translate_segments", "generate_srt_content">>
    /\ Get(response.body).source_language = Some("en")
    /\ Get(response.body).target_language = Some("es")

\* C2: a start request for a registered job whose status is not "uploaded" is
\* answered with the "Job not ready for processing" error, schedules no task
\* and leaves the registry and the job dict as they were.
C2_StartRejectedUnlessUploaded ==
    [][\A j \in JobIds :
        (response'.op = "process" /\ response'.job_id = j
            /\ j \in active_jobs /\ jobs[j].status # "uploaded") =>
              /\ response' = HTTPError("process", j, 500, "400: Job not ready for processing")
              /\ tasks' = tasks
              /\ scheduled' = scheduled
              /\ jobs' = jobs
              /\ active_jobs' = active_jobs
      ]_vars

C2_Witness ==
    /\ response = HTTPError("process", "j1", 500, "400: Job not ready for processing")
    /\ "j1" \in active_jobs
    /\ jobs["j1"].status = "failed"
    /\ scheduled["j1"][PROCESS] = 1

\* C3: every start after an accepted one is rejected, so that at most one
\* extract/transcribe task is ever scheduled for a job.
C3_AtMostOneProcessTask ==
    \A j \in JobIds : scheduled[j][PROCESS] <= 1

\* C4: a continue request for a registered job whose status is not
\* "transcription_complete" is answered with the "Job not ready for
\* transcription continuation" error, schedules no task and leaves the
\* registry and the job dict as they were.
C4_ContinueRejectedUnlessAtCheckpoint ==
    [][\A j \in JobIds :
        (response'.op = "continue" /\ response'.job_id = j
            /\ j \in active_jobs /\ jobs[j].status # "transcription_complete") =>
              /\ response' = HTTPError("continue", j, 500,
                                       "400: Job not ready for transcription continuation")
              /\ tasks' = tasks
              /\ scheduled' = scheduled
              /\ jobs' = jobs
              /\ active_jobs' = active_jobs
      ]_vars

C4_Witness ==
    /\ response = HTTPError("continue", "j1", 500,
                            "400: Job not ready for transcription continuation")
    /\ "j1" \in active_jobs
    /\ jobs["j1"].status = "rendering_video"

\* C5: every continue after an accepted one is rejected, so that at most one
\* continuation task is ever scheduled for a job.
C5_AtMostOneContinueTask ==
    \A j \in JobIds : scheduled[j][CONTINUE] <= 1

\* C6: while a registered job is at the checkpoint and no continue request for it
\* has been accepted, no step changes its status, its progress or its stored
\* transcription, and no step removes it from the registry.
C6_CheckpointHeldUntilContinue ==
    [][\A j \in active_jobs :
        (jobs[j].status = "transcription_complete" /\ scheduled'[j][CONTINUE] = 0) =>
              /\ j \in active_jobs'
              /\ jobs'[j].status = jobs[j].status
              /\ jobs'[j].progress = jobs[j].progress
              /\ jobs'[j].transcription_result = jobs[j].transcription_result
      ]_vars

\* C7: no step changes the status of a registered job whose status is "failed",
\* and no step changes the status of a registered job whose status is
\* "completed" unless it removes the job from the registry.
C7_TerminalStatusesAbsorbing ==
    [][\A j \in active_jobs :
        /\ jobs[j].status = "failed" =>
              j \in active_jobs' /\ jobs'[j].status = "failed"
        /\ (jobs[j].status = "completed" /\ j \in active_jobs') =>
              jobs'[j].status = "completed"
      ]_vars

\* The position of a status on the line of stages; "failed" ends every line.
Rank(status) ==
    CASE status = "uploaded"               -> 0
      [] status = "extracting_audio"       -> 1
      [] status = "transcribing"           -> 2
      [] status = "transcription_complete" -> 3
      [] status = "translating"            -> 4
      [] status = "generating_subtitles"   -> 5
      [] status = "rendering_video"        -> 6
      [] status = "completed"              -> 7
      [] status = "failed"                 -> 8

\* C8: every step that changes the status of a registered job moves it to a
\* later stage of the line uploaded, extracting_audio, transcribing,
\* transcription_complete, translating, generating_subtitles, rendering_video,
\* completed, or to "failed".
C8_StatusOnlyMovesForward ==
    [][\A j \in active_jobs \cap active_jobs' :
        jobs'[j].status # jobs[j].status =>
            Rank(jobs'[j].status) > Rank(jobs[j].status)
      ]_vars

\* C9: when a background task has just ended on an exception, the task is gone,
\* the message was only logged, and the job, if it is still registered, has
\* status "failed", progress 0 and the logged message as its error.
C9_RaisedStageFailsTheJob ==
    (response.op \in TaskKinds /\ response.detail # "") =>
        /\ response.status_code = 0
        /\ (response.job_id \in active_jobs) =>
              /\ jobs[response.job_id].status = "failed"
              /\ jobs[response.job_id].progress = 0
              /\ jobs[response.job_id].error = Some(response.detail)

C9_Witness ==
    /\ response.op = CONTINUE
    /\ response.detail = "video rendering failed"
    /\ response.job_id \in active_jobs
    /\ jobs[response.job_id].status = "failed"

\* The status a poll of job j would report; a purged job has none.
JobStatus(j) == IF j \in active_jobs THEN jobs[j].status ELSE "<none>"

\* C10: with the background steps run fairly, every accepted start is followed
\* by a state in which the job is at the checkpoint or failed, and every
\* accepted continue by a state in which the job is completed or failed.
C10_AcceptedRequestsReachTheirEnd ==
    \A j \in OneJob :
        /\ Accepted("process", j) ~>
               (JobStatus(j) \in {"transcription_complete", "failed"})
        /\ Accepted("continue", j) ~>
               (JobStatus(j) \in {"completed", "failed"})

\* A download of job j has been accepted: its purge is pending or done.
Downloaded(j) ==
    j \in cleanups \/ (j \notin active_jobs /\ jobs[j] # NoJob)

\* C11: once a download of a job has been accepted, every later download,
\* preview or status request for that job is answered "Job not found".
C11_NotFoundAfterDownload ==
    [][\A j \in JobIds :
        (Downloaded(j) /\ response'.job_id = j
            /\ response'.op \in {"download", "preview", "status"}) =>
              response' = JobNotFound(response'.op, j)
      ]_vars

ReadOnlyOps == {"status", "transcription", "preview"}

\* C12: a status, transcription or preview request changes no job dict, removes
\* no job from the registry, schedules no task and no purge; a preview of a
\* registered completed job returns the stored result bytes, so that repeating
\* it returns them again.
C12_ReadsChangeNothing ==
    [][response'.op \in ReadOnlyOps =>
          /\ jobs' = jobs
          /\ active_jobs' = active_jobs
          /\ tasks' = tasks
          /\ scheduled' = scheduled
          /\ cleanups' = cleanups
          /\ \A j \in active_jobs :
                (response'.op = "preview" /\ response'.job_id = j
                    /\ jobs[j].status = "completed") =>
                  response' = Ok("preview", j,
                                 [video_bytes |-> Get(jobs'[j].result_video)])
      ]_vars

C12_Witness ==
    /\ "j1" \in active_jobs
    /\ jobs["j1"].status = "completed"
    /\ response = Ok("preview", "j1", [video_bytes |-> Get(jobs["j1"].result_video)])
    /\ Get(jobs["j1"].result_video).subtitles # <<>>

JobControlOps == {"process", "status", "transcription", "continue", "download", "preview"}

\* C13: a start, status, transcription, continue, download or preview request
\* for an id that is not in the registry is answered with the "Job not found"
\* error (the handler's 404, delivered as the detail "404: Job not found" of a
\* 500 response) and changes nothing; a request for a registered id is never
\* answered with that error, so the answer tells the unknown id from a job in
\* the wrong status and from every other failure.
C13_UnknownIdIsNotFound ==
    [][\A j \in JobIds :
        (response'.op \in JobControlOps /\ response'.job_id = j) =>
            /\ (j \notin active_jobs) =>
                  /\ response' = JobNotFound(response'.op, j)
                  /\ UNCHANGED <<active_jobs, jobs, tasks, scheduled, cleanups>>
            /\ (j \in active_jobs) => response'.detail # JobNotFound(response'.op, j).detail
      ]_vars

C13_Witness ==
    /\ response = JobNotFound("download", "j1")
    /\ "j1" \notin active_jobs
    /\ jobs["j1"].status = "completed"

\* C14: a transcription request for a registered job whose status is not
\* "transcription_complete" is answered with the "Transcription not ready for
\* review" error; at the checkpoint it is answered with the transcription
\* result the transcription stage stored in the job, and the job's source and
\* target language.
C14_TranscriptionOnlyAtCheckpoint ==
    [][\A j \in active_jobs :
        (response'.op = "transcription" /\ response'.job_id = j) =>
            IF jobs[j].status # "transcription_complete"
            THEN response' = HTTPError("transcription", j, 500,
                                       "400: Transcription not ready for review")
            ELSE /\ jobs[j].transcription_result \in
                        {Some(r) : r \in TranscriptionResults}
                 /\ jobs[j].source_language \in {Some("en"), Some("es")}
                 /\ jobs[j].target_language \in {Some(l) : l \in Languages}
                 /\ response' = Ok("transcription", j,
                        [transcription |-> Get(jobs[j].transcription_result),
                         source_language |-> Get(jobs[j].source_language),
                         target_language |-> Get(jobs[j].target_language)])
      ]_vars

C14_Witness ==
    /\ "j1" \in active_jobs
    /\ jobs["j1"].status = "transcription_complete"
    /\ response.op = "transcription"
    /\ response.status_code = 200
    /\ Get(response.body).transcription = Get(jobs["j1"].transcription_result)
    /\ Get(response.body).source_language = "en"

\* C15: the progress of a registered job is an integer in 0..100 and is 0
\* whenever its status is "failed"; no step lowers the progress of a registered
\* job unless it leaves the job failed.
C15_ProgressBoundedAndMonotonic ==
    /\ [](\A j \in active_jobs :
            /\ jobs[j].progress \in 0..100
            /\ jobs[j].status = "failed" => jobs[j].progress = 0)
    /\ [][\A j \in active_jobs \cap active_jobs' :
            jobs'[j].status # "failed" => jobs'[j].progress >= jobs[j].progress
         ]_vars

\* The progress the code writes together with each status.
ProgressOf(status) ==
    CASE status = "uploaded"               -> 0
      [] status = "extracting_audio"       -> 20
      [] status = "transcribing"           -> 50
      [] status = "transcription_complete" -> 60
      [] status = "translating"            -> 70
      [] status = "generating_subtitles"   -> 80
      [] status = "rendering_video"        -> 90
      [] status = "completed"              -> 100
      [] status = "failed"                 -> 0

\* C16: in every state a status poll can observe, the progress of a registered
\* job is the one written with its status and a failed job has its error
\* message; every answer to a status poll reports such a pair, and "failed"
\* with its message.
C16_PollSeesWholeRecord ==
    /\ \A j \in active_jobs :
          /\ jobs[j].status \in ProcessingStatus
          /\ jobs[j].progress = ProgressOf(jobs[j].status)
          /\ jobs[j].status = "failed" => ~IsNone(jobs[j].error)
    /\ (response.op = "status" /\ response.status_code = 200) =>
          /\ Get(response.body).status \in ProcessingStatus
          /\ Get(response.body).progress = ProgressOf(Get(response.body).status)
          /\ Get(response.body).status = "failed" => Get(response.body).message # ""

C16_Witness ==
    /\ response.op = "status"
    /\ response.status_code = 200
    /\ Get(response.body).status = "failed"
    /\ Get(response.body).message = "Audio extraction failed"
    /\ \E task \in Tasks : task.job_id = response.job_id

\* The values a sequence holds.
Range(seq) == {seq[i] : i \in DOMAIN seq}

\* C17: a continuation that starts on a job whose source and target language
\* are equal never assigns "translating" to the job's status, and the first
\* status it assigns is "generating_subtitles".
C17_TranslatingSkippedWhenEqual ==
    [][\A j \in active_jobs :
        (/\ response'.op = CONTINUE
         /\ response'.job_id = j
         /\ Get(response'.body).pc = "pending"
         /\ Get(response'.body).writes # <<>>
         /\ jobs[j].source_language = jobs[j].target_language) =>
              /\ "translating" \notin Range(Get(response'.body).writes)
              /\ Get(response'.body).writes[1] = "generating_subtitles"
              /\ jobs'[j].status # "translating"
      ]_vars

\* C18: a continuation that read equal source and target language codes from
\* its job never awaits the translation engine, has no translate_segments stage
\* behind it, and the segments it hands to generate_srt_content and has
\* rendered are the segments of the edited transcription it was given.
C18_EqualLanguagesKeepSegments ==
    \A task \in Tasks :
        (/\ task.kind = CONTINUE
         /\ task.pc # "pending"
         /\ task.source_language = task.target_language) =>
              /\ task.pc = "render_video"
              /\ task.stages = <<"generate_srt_content">>
              /\ task.segments = task.edited_transcription.segments
              /\ task.srt_content = generate_srt_content(task.edited_transcription.segments)

C18_Witness ==
    \E task \in Tasks :
        /\ task.kind = CONTINUE
        /\ task.pc = "render_video"
        /\ task.source_language = Some("es")
        /\ task.target_language = Some("es")
        /\ task.edited_transcription.segments = <<"hi">>
        /\ task.segments = <<"hi">>

\* C19: the segments a continuation has had translated, or has handed to
\* generate_srt_content untranslated, are the segments of the edited
\* transcription it was given; and once a continue request for a job has been
\* accepted, no task of that job starts the audio extraction or the
\* transcription again.
C19_EditedTranscriptionUsedVerbatim ==
    /\ [](\A task \in Tasks :
            (task.kind = CONTINUE /\ task.pc = "render_video") =>
                IF "translate_segments" \in Range(task.stages)
                THEN task.segments \in TranslationsOf(task.edited_transcription.segments)
                ELSE task.segments = task.edited_transcription.segments)
    /\ [][\A j \in JobIds :
            (scheduled[j][CONTINUE] >= 1 /\ response'.op = PROCESS
                /\ response'.job_id = j) =>
                  Range(Get(response'.body).writes)
                      \cap {"extracting_audio", "transcribing"} = {}
         ]_vars

\* x comes before y in seq.
Before(seq, x, y) ==
    \E i, k \in DOMAIN seq : i < k /\ seq[i] = x /\ seq[k] = y

\* C20: a registered job whose status is "completed" holds the rendered result
\* and holds neither the uploaded video bytes nor the transcription result; and
\* the step that completes a job deletes both before it stores the result.
C20_BuffersReleasedBeforeResult ==
    /\ [](\A j \in active_jobs :
            jobs[j].status = "completed" =>
                /\ ~IsNone(jobs[j].result_video)
                /\ IsNone(jobs[j].video_data)
                /\ IsNone(jobs[j].transcription_result))
    /\ [][\A j \in active_jobs :
            (jobs'[j].status = "completed" /\ jobs[j].status # "completed") =>
                /\ Before(Get(response'.body).writes, "del video_data", "result_video")
                /\ Before(Get(response'.body).writes, "del transcription_result",
                          "result_video")
         ]_vars

\* ======================================================================
\* Service functions taken on their own.  Each of the specifications below
\* draws the arguments of one call from a bounded set and applies the
\* function as the code computes it; the orchestrator's variables stay as
\* Init leaves them.
\* ======================================================================
Idle ==
    /\ active_jobs = {}
    /\ jobs = [j \in JobIds |-> NoJob]
    /\ tasks = EmptyBag
    /\ scheduled = [j \in JobIds |-> [k \in TaskKinds |-> 0]]
    /\ cleanups = {}
    /\ response = NoResponse

StaysIdle == UNCHANGED <<active_jobs, jobs, tasks, scheduled, cleanups, response>>

\* ------------------------------------------------------- Python's str
\* A text is a string; Char(s, i) is its i-th character (from 1).
Char(s, i) == SubSeq(s, i, i)

\* str.strip() with no argument removes these at both ends.
Whitespace == {" ", "\n", "\t", "\r"}

RECURSIVE lstrip(_)
lstrip(s) ==
    IF Len(s) > 0 /\ Char(s, 1) \in Whitespace THEN lstrip(SubSeq(s, 2, Len(s))) ELSE s

RECURSIVE rstrip(_)
rstrip(s) ==
    IF Len(s) > 0 /\ Char(s, Len(s)) \in Whitespace
    THEN rstrip(SubSeq(s, 1, Len(s) - 1)) ELSE s

strip(s) == rstrip(lstrip(s))

startswith(s, prefix) ==
    Len(s) >= Len(prefix) /\ SubSeq(s, 1, Len(prefix)) = prefix

endswith(s, suffix) ==
    Len(s) >= Len(suffix) /\ SubSeq(s, Len(s) - Len(suffix) + 1, Len(s)) = suffix

\* s[n:]
From(s, n) == SubSeq(s, n + 1, Len(s))

\* str.find(c) for a one-character c: the 0-based place of the first c, or -1.
RECURSIVE find_from(_, _, _)
find_from(s, c, i) ==
    IF i > Len(s) THEN -1
    ELSE IF Char(s, i) = c THEN i - 1
    ELSE find_from(s, c, i + 1)

find(s, c) == find_from(s, c, 1)

\* str.split(sep) for a one-character sep: never empty, "" gives <<"">>.
RECURSIVE split(_, _)
split(s, sep) ==
    LET at == find(s, sep)
    IN  IF at = -1 THEN <<s>>
        ELSE <<SubSeq(s, 1, at)>> \o split(From(s, at + 1), sep)

\* sep.join(parts)
RECURSIVE join(_, _)
join(sep, parts) ==
    IF Len(parts) = 0 THEN ""
    ELSE IF Len(parts) = 1 THEN parts[1]
    ELSE parts[1] \o sep \o join(sep, Tail(parts))

Digits == "0123456789"

IsDigit(c) == \E d \in 1..10 : Char(Digits, d) = c

DigitValue(c) == (CHOOSE d \in 1..10 : Char(Digits, d) = c) - 1

\* str(n) of a natural number.
RECURSIVE str(_)
str(n) == IF n < 10 THEN Char(Digits, n + 1) ELSE str(n \div 10) \o Char(Digits, (n % 10) + 1)

\* The value of a run of digits that may hold single underscores between
\* digits (int("1_0") is 10); None where int() raises ValueError.
RECURSIVE digits_value(_, _, _)
digits_value(s, acc, after_digit) ==
    IF Len(s) = 0 THEN (IF after_digit THEN Some(acc) ELSE None)
    ELSE IF IsDigit(Char(s, 1))
         THEN digits_value(From(s, 1), 10 * acc + DigitValue(Char(s, 1)), TRUE)
    ELSE IF Char(s, 1) = "_" /\ after_digit
         THEN digits_value(From(s, 1), acc, FALSE)
    ELSE None

\* int(s): surrounding whitespace and one sign are accepted.
int(s) ==
    LET t == strip(s)
        signed == Len(t) > 0 /\ Char(t, 1) \in {"+", "-"}
        magnitude == digits_value(IF signed THEN From(t, 1) ELSE t, 0, FALSE)
    IN  IF IsNone(magnitude) THEN None
        ELSE IF signed /\ Char(t, 1) = "-" THEN Some(0 - Get(magnitude))
        ELSE magnitude

UpperCase == "ABCDEFGHIJKLMNOPQRSTUVWXYZ"
LowerCase == "abcdefghijklmnopqrstuvwxyz"

lower_char(c) ==
    IF \E k \in 1..26 : Char(UpperCase, k) = c
    THEN Char(LowerCase, CHOOSE k \in 1..26 : Char(UpperCase, k) = c)
    ELSE c

\* s.lower().startswith(prefix.lower())
startswith_lower(s, prefix) ==
    /\ Len(s) >= Len(prefix)
    /\ \A k \in 1..Len(prefix) : lower_char(Char(s, k)) = lower_char(Char(prefix, k))

\* --------------------------------------------- batch translation reassembler
\* A TranscriptionSegment.  Times are whole numbers of 1/60 s; confidence is
\* None or a percentage.
Segment(start, end, text, confidence) ==
    [start |-> start, end |-> end, text |-> text, confidence |-> confidence]

\* translate_segments: batch_size = 10
batch_size == 10

\* Longest segment list translated.
MaxSegments == 11

\* The p-th segment (from 0) of the list translated: one second each, two
\* seconds apart, every other one without a confidence.
SourceSegment(p) ==
    Segment(120 * p, 120 * p + 60, "t" \o str(p), IF p % 2 = 0 THEN Some(80) ELSE None)

SourceSegments(n) == [k \in 1..n |-> SourceSegment(k - 1)]

\* What the chat completion may answer to one batch: every marker in place,
\* markers reordered, duplicated, missing, out of range, malformed, padded,
\* wrapped in a preamble or in quotes, or no marker at all.
EngineResponses ==
    { "[0] hola\n[1] mundo",
      "[1] mundo\n[0] hola",
      "[0] uno\n[0] dos",
      "[1] mundo",
      "[9] nueve\n[10] diez",
      "hola mundo",
      "",
      "[x] hola\n[] mundo\n0] hola\n[0 hola",
      "  [0]hola  \n\n[1]",
      "Translation: [0] hola",
      "\"[0] hola\"",
      "[+1] hola",
      "[ 0 ] hola",
      "[-1] hola\n]0[ hola" }

TranslationPrefixes ==
    << "Translated text:", "Translation:", "Here's the translation:",
       "The translation is:", "In English:", "In Spanish:", "In French:",
       "In German:", "In Italian:", "In Portuguese:", "In Russian:",
       "In Japanese:", "In Korean:", "In Chinese:", "In Arabic:", "In Hindi:" >>

RECURSIVE remove_prefixes(_, _)
remove_prefixes(translated_text, k) ==
    IF k > Len(TranslationPrefixes) THEN translated_text
    ELSE LET prefix == TranslationPrefixes[k]
         IN  remove_prefixes(
                 IF startswith_lower(translated_text, prefix)
                 THEN strip(From(translated_text, Len(prefix)))
                 ELSE translated_text,
                 k + 1)

Unquoted(s, quote) ==
    IF startswith(s, quote) /\ endswith(s, quote) THEN SubSeq(s, 2, Len(s) - 1) ELSE s

_post_process_translation(translated_text) ==
    strip(Unquoted(Unquoted(remove_prefixes(translated_text, 1), "\""), "'"))

\* _translate_with_groq returns the completion's content stripped;
\* translate_text post-processes it.
translate_text(content) == _post_process_translation(strip(content))

RECURSIVE batch_lines(_, _)
batch_lines(segments, i) ==
    IF i >= Len(segments) THEN <<>>
    ELSE <<"[" \o str(i) \o "] " \o segments[i + 1].text>> \o batch_lines(segments, i + 1)

_create_batch_text_from_one(segments) ==
    join("\n", [k \in 1..Len(segments) |-> "[" \o str(k) \o "] " \o segments[k].text])

_create_batch_text(segments) == join("\n", batch_lines(segments, 0))

\* The dict segment_map after the lines have been scanned in order: a
\* function from the indexes found to the text after the marker.
RECURSIVE segment_map(_, _)
segment_map(lines, map) ==
    IF Len(lines) = 0 THEN map
    ELSE LET line == strip(lines[1])
             marker_end == find(line, "]")
             index == int(SubSeq(line, 2, marker_end))
             text == strip(From(line, marker_end + 1))
         IN  segment_map(Tail(lines),
                 IF Len(line) > 0 /\ startswith(line, "[") /\ marker_end > 0 /\ ~IsNone(index)
                 THEN [i \in DOMAIN map \cup {Get(index)} |->
                          IF i = Get(index) THEN text ELSE map[i]]
                 ELSE map)

EmptyMap == [i \in {} |-> ""]

_parse_batch_translation_omitting(translated_text, original_segments) ==
    LET map == segment_map(split(strip(translated_text), "\n"), EmptyMap)
        kept == SelectSeq([k \in 1..Len(original_segments) |-> k],
                          LAMBDA k : (k - 1) \in DOMAIN map)
    IN  [n \in 1..Len(kept) |->
            Segment(original_segments[kept[n]].start,
                    original_segments[kept[n]].end,
                    map[kept[n] - 1],
                    original_segments[kept[n]].confidence)]

_parse_batch_translation(translated_text, original_segments) ==
    LET map == segment_map(split(strip(translated_text), "\n"), EmptyMap)
    IN  [k \in 1..Len(original_segments) |->
            Segment(original_segments[k].start,
                    original_segments[k].end,
                    IF (k - 1) \in DOMAIN map THEN map[k - 1]
                    ELSE original_segments[k].text,
                    original_segments[k].confidence)]

\* segments[i:i + batch_size]
BatchAt(segments, i) ==
    SubSeq(segments, i + 1, IF i + batch_size < Len(segments) THEN i + batch_size
                            ELSE Len(segments))

\* Source and target language of the calls made.
LanguagePairs == {<<"en", "es">>, <<"es", "ES">>}

TranslateCall(segments, source_language, target_language) ==
    [fn |-> "translate_segments", pc |-> "called", segments |-> segments,
     source_language |-> source_language, target_language |-> target_language,
     i |-> 0, sent |-> <<>>, received |-> <<>>, translated_segments |-> <<>>,
     result |-> None]

ReassemblerInit ==
    /\ Idle
    /\ call \in {TranslateCall(SourceSegments(n), pair[1], pair[2]) :
                     n \in 0..MaxSegments, pair \in LanguagePairs}

\* The call up to its first await: the equal-language shortcut, the empty
\* loop, or the first batch handed to translate_text.  `sent` keeps the
\* batch texts handed over, `received` the completions that came back.
translate_segments ==
    /\ call.fn = "translate_segments" /\ call.pc = "called"
    /\ call' =
         IF lower(call.source_language) = lower(call.target_language)
         THEN [call EXCEPT !.pc = "returned", !.result = Some(call.segments)]
         ELSE IF Len(call.segments) = 0
         THEN [call EXCEPT !.pc = "returned", !.result = Some(<<>>)]
         ELSE [call EXCEPT !.pc = "awaiting",
                           !.sent = <<_create_batch_text(BatchAt(call.segments, 0))>>]

\* The completion for the batch at i arrives: it is post-processed, parsed
\* against the batch and appended; then the next batch is sent or the
\* list is returned.
translate_text_returns(content) ==
    /\ call.fn = "translate_segments" /\ call.pc = "awaiting"
    /\ LET batch == BatchAt(call.segments, call.i)
           translated_batch_segments ==
               _parse_batch_translation(translate_text(content), batch)
           translated_segments == call.translated_segments \o translated_batch_segments
           next == call.i + batch_size
       IN  call' =
             IF next < Len(call.segments)
             THEN [call EXCEPT !.i = next,
                               !.received = Append(@, content),
                               !.translated_segments = translated_segments,
                               !.sent = Append(@, _create_batch_text(BatchAt(call.segments, next)))]
             ELSE [call EXCEPT !.pc = "returned", !.i = next,
                               !.received = Append(@, content),
                               !.translated_segments = translated_segments,
                               !.result = Some(translated_segments)]

\* The completion request fails: the exception is wrapped and raised again.
translate_text_raises ==
    /\ call.fn = "translate_segments" /\ call.pc = "awaiting"
    /\ call' = [call EXCEPT !.pc = "raised"]

ReassemblerNext ==
    \/ translate_segments /\ StaysIdle
    \/ \E content \in EngineResponses : translate_text_returns(content) /\ StaysIdle
    \/ translate_text_raises /\ StaysIdle

ReassemblerSpec == ReassemblerInit /\ [][ReassemblerNext]_vars

Translated == call.fn = "translate_segments" /\ call.pc = "returned"

\* C21: whatever the engine answered, the list translate_segments returns
\* is as long as the list it was given, and its i-th segment has the start,
\* end and confidence of the i-th segment given.
C21_ReassemblyKeepsCountAndTiming ==
    Translated =>
        /\ Len(Get(call.result)) = Len(call.segments)
        /\ \A k \in 1..Len(call.segments) :
               /\ Get(call.result)[k].start = call.segments[k].start
               /\ Get(call.result)[k].end = call.segments[k].end
               /\ Get(call.result)[k].confidence = call.segments[k].confidence

\* Two batches came back, one segment was translated and another fell back
\* to its original text.
C21_Witness ==
    /\ Translated
    /\ Len(call.received) = 2
    /\ \E k \in 1..Len(call.segments) : Get(call.result)[k].text # call.segments[k].text
    /\ \E k \in 1..Len(call.segments) : Get(call.result)[k].text = call.segments[k].text

\* The completion as the parser receives it, for the batch holding the
\* segment at global position p.
ReplyFor(p) == split(translate_text(call.received[(p \div batch_size) + 1]), "\n")

\* The index of a line of the form [digits]rest, None for any other line.
MarkedIndex(line) ==
    LET stripped == strip(line)
        marker_end == find(stripped, "]")
    IN  IF /\ startswith(stripped, "[")
           /\ marker_end >= 2
           /\ \A k \in 2..marker_end : IsDigit(Char(stripped, k))
        THEN digits_value(SubSeq(stripped, 2, marker_end), 0, FALSE)
        ELSE None

\* The text after the marker of the last line marked [index], None if no
\* line is.
MarkedText(lines, index) ==
    LET marked == {k \in 1..Len(lines) : MarkedIndex(lines[k]) = Some(index)}
        last == CHOOSE k \in marked : \A other \in marked : other <= k
    IN  IF marked = {} THEN None
        ELSE Some(strip(From(strip(lines[last]), find(strip(lines[last]), "]") + 1)))

TranslatedByEngine ==
    Translated /\ lower(call.source_language) # lower(call.target_language)

\* C22: the text of each segment returned is the text that follows the
\* marker [i] of its batch-local index i in the engine's answer to its
\* batch, when a line [digits]rest with that index is there, and the
\* segment's original text otherwise; no other line changes a segment.
C22_TextFromOwnMarkerOrOriginal ==
    TranslatedByEngine =>
        \A p \in 0..(Len(call.segments) - 1) :
            Get(call.result)[p + 1].text =
                LET mapped == MarkedText(ReplyFor(p), p % batch_size)
                IN  IF IsNone(mapped) THEN call.segments[p + 1].text ELSE Get(mapped)

Min(a, b) == IF a < b THEN a ELSE b

\* C27: the list is cut into consecutive batches of batch_size, the last
\* one possibly shorter; the text sent for a batch has one line per
\* segment of the batch, in order, numbered from 0; and the segment at
\* position p comes back with the text the answer to batch p \div 10 maps
\* to index p % 10, or with its own text: the answer to another batch
\* never reaches it.
C27_BatchesOfTenNumberedFromZero ==
    (call.fn = "translate_segments" /\ call.pc \in {"awaiting", "returned"}
         /\ lower(call.source_language) # lower(call.target_language)) =>
        /\ \A b \in 1..Len(call.sent) :
               LET first == (b - 1) * batch_size
                   lines == split(call.sent[b], "\n")
               IN  /\ Len(lines) = Min(batch_size, Len(call.segments) - first)
                   /\ \A q \in 0..(Len(lines) - 1) :
                          lines[q + 1] = "[" \o str(q) \o "] " \o call.segments[first + q + 1].text
        /\ call.pc = "returned" =>
               /\ Len(call.sent) = (Len(call.segments) + batch_size - 1) \div batch_size
               /\ Len(call.received) = Len(call.sent)
               /\ Len(Get(call.result)) = Len(call.segments)
               /\ \A p \in 0..(Len(call.segments) - 1) :
                      LET map == segment_map(ReplyFor(p), EmptyMap)
                      IN  Get(call.result)[p + 1].text =
                              IF (p % batch_size) \in DOMAIN map THEN map[p % batch_size]
                              ELSE call.segments[p + 1].text

\* Eleven segments went out in two batches; the answer to the first batch
\* carried only marker [1] and the answer to the second only marker [0]:
\* position 0 kept its text and position 10 took the second answer's.
C27_Witness ==
    /\ TranslatedByEngine
    /\ Len(call.segments) = batch_size + 1
    /\ call.received = <<"[1] mundo", "Translation: [0] hola">>
    /\ Get(call.result)[1].text = call.segments[1].text
    /\ Get(call.result)[2].text = "mundo"
    /\ Get(call.result)[batch_size + 1].text = "hola"

\* ------------------------------------------------------ hallucination filter
IsAlnumChar(c) ==
    \/ IsDigit(c)
    \/ \E k \in 1..26 : c \in {Char(LowerCase, k), Char(UpperCase, k)}

\* str.isalnum(): at least one character, and every one a letter or a digit.
isalnum(s) == Len(s) > 0 /\ \A k \in 1..Len(s) : IsAlnumChar(Char(s, k))

\* set(text.lower().replace(' ', ''))
LoweredCharsButSpace(s) == {lower_char(Char(s, k)) : k \in 1..Len(s)} \ {" "}

_is_likely_hallucination(raw) ==
    IF Len(raw) = 0 \/ Len(strip(raw)) < 2 THEN FALSE
    ELSE LET text == strip(raw)
         IN  \/ Len(text) <= 2 /\ ~isalnum(text)
             \/ Len(text) > 20 /\ Cardinality(LoweredCharsButSpace(text)) = 1

\* Characters of the short texts tried, and their greatest length.
FilterAlphabet == {"a", "Z", "7", "?", ".", " "}

MaxShort == 3

RECURSIVE TextsOfLength(_)
TextsOfLength(n) ==
    IF n = 0 THEN {""}
    ELSE {t \o c : t \in TextsOfLength(n - 1), c \in FilterAlphabet}

ShortTexts == UNION {TextsOfLength(n) : n \in 0..MaxShort}

RECURSIVE Repeat(_, _)
Repeat(unit, n) == IF n = 0 THEN "" ELSE unit \o Repeat(unit, n - 1)

\* Texts around the length threshold of 20: one character repeated, with
\* and without spaces and in both cases, and ordinary text.
LongTexts ==
    {Repeat(unit, n) : unit \in {"a", "?", "aA", "ab"}, n \in {10, 11, 20, 21, 25}}
    \cup {Repeat("a ", 10) \o "a", Repeat("a ", 11), Repeat("ha ", 8),
          "thank you for watching this"}

RawTexts == ShortTexts \cup LongTexts

FilterInit ==
    /\ Idle
    /\ call \in {[fn |-> "_convert_groq_result", pc |-> "called", raw |-> raw,
                  text |-> "", kept |-> FALSE] : raw \in RawTexts}

\* One turn of the loop over the engine's segments: the text is stripped,
\* an empty text is skipped, a likely hallucination is skipped, anything
\* else becomes a segment of the result.
skip_empty_segment ==
    /\ call.fn = "_convert_groq_result" /\ call.pc = "called"
    /\ strip(call.raw) = ""
    /\ call' = [call EXCEPT !.pc = "empty"]

skip_hallucination ==
    /\ call.fn = "_convert_groq_result" /\ call.pc = "called"
    /\ strip(call.raw) # ""
    /\ _is_likely_hallucination(strip(call.raw))
    /\ call' = [call EXCEPT !.pc = "filtered", !.text = strip(call.raw)]

append_segment ==
    /\ call.fn = "_convert_groq_result" /\ call.pc = "called"
    /\ strip(call.raw) # ""
    /\ ~_is_likely_hallucination(strip(call.raw))
    /\ call' = [call EXCEPT !.pc = "filtered", !.text = strip(call.raw), !.kept = TRUE]

FilterNext ==
    \/ skip_empty_segment /\ StaysIdle
    \/ skip_hallucination /\ StaysIdle
    \/ append_segment /\ StaysIdle

FilterSpec == FilterInit /\ [][FilterNext]_vars

CharsButSpace(s) == {Char(s, k) : k \in 1..Len(s)} \ {" "}

\* C26: a segment whose stripped text t is not empty is dropped exactly
\* when t has at most two characters and is not alphanumeric, or t has
\* more than twenty characters and its characters other than spaces are
\* all the same one.
C26_DroppedIffShortNoiseOrOneRepeatedCharacter ==
    (call.fn = "_convert_groq_result" /\ call.pc = "filtered") =>
        (~call.kept <=>
            \/ Len(call.text) <= 2 /\ ~isalnum(call.text)
            \/ Len(call.text) > 20 /\ Cardinality(CharsButSpace(call.text)) = 1)

\* -------------------------------------------------------- segment normalizer
\* Times are exact and counted in sixtieths of a second, so that the
\* constants of the code are whole: 0.05 s per character is 3, the 0.1 s
\* gap 6, the 1.0 s floor 60 and the 7.0 s ceiling 420.  The segments tried
\* below keep every quotient duration / num_parts whole.
Second == 60

PerCharacter == 3

gap == 6

max_duration == 420

Max(a, b) == IF a > b THEN a ELSE b

\* str.split() with no argument: the runs of characters other than
\* whitespace.
RECURSIVE split_words(_)
split_words(s) ==
    LET t == lstrip(s)
        stops == {k \in 1..Len(t) : Char(t, k) \in Whitespace}
        stop == IF stops = {} THEN Len(t) + 1
                ELSE CHOOSE k \in stops : \A other \in stops : k <= other
    IN  IF Len(t) = 0 THEN <<>>
        ELSE <<SubSeq(t, 1, stop - 1)>> \o split_words(SubSeq(t, stop, Len(t)))

\* The parts made from part i on: words[start_idx:end_idx] joined by a
\* space, each part one num_parts-th of the duration long and starting
\* where the one before ends.
RECURSIVE split_parts(_, _, _, _, _, _)
split_parts(segment, words, num_parts, duration, i, current_start) ==
    LET words_per_part == Len(words) \div num_parts
        start_idx == i * words_per_part
        end_idx == IF i < num_parts - 1 THEN (i + 1) * words_per_part ELSE Len(words)
        part_end == current_start + (duration \div num_parts)
    IN  IF i >= num_parts \/ start_idx >= Len(words) THEN <<>>
        ELSE <<Segment(current_start, part_end,
                       join(" ", SubSeq(words, start_idx + 1, end_idx)),
                       segment.confidence)>>
             \o split_parts(segment, words, num_parts, duration, i + 1, part_end)

_split_long_segment(segment, max) ==
    LET words == split_words(segment.text)
        duration == segment.end - segment.start
        num_parts == (duration \div max) + 1
    IN  IF Len(words) <= 1 THEN <<segment>>
        ELSE split_parts(segment, words, num_parts, duration, 0, segment.start)

\* list.sort(key=lambda x: x.start): stable.
RECURSIVE sort_by_start(_)
sort_by_start(segments) ==
    IF Len(segments) <= 1 THEN segments
    ELSE LET sorted == sort_by_start(SubSeq(segments, 1, Len(segments) - 1))
             x == segments[Len(segments)]
             before == {k \in 1..Len(sorted) : sorted[k].start <= x.start}
             n == Cardinality(before)
         IN  SubSeq(sorted, 1, n) \o <<x>> \o SubSeq(sorted, n + 1, Len(sorted))

overlaps_or_touches(segment, last_segment) == segment.start <= last_segment.end

overlaps(segment, last_segment) == segment.start < last_segment.end

RECURSIVE clean_from(_, _, _)
clean_from(segments, k, cleaned_segments) ==
    IF k > Len(segments) THEN cleaned_segments
    ELSE LET segment == segments[k]
             last_segment == cleaned_segments[Len(cleaned_segments)]
             overlap == Len(cleaned_segments) > 0 /\ overlaps(segment, last_segment)
             start == IF overlap THEN last_segment.end + gap ELSE segment.start
             end == IF overlap /\ segment.end <= start THEN start + Second ELSE segment.end
         IN  clean_from(segments, k + 1,
                        Append(cleaned_segments, [segment EXCEPT !.start = start, !.end = end]))

_remove_overlaps_sort_only(segments) == sort_by_start(segments)

_remove_overlaps(segments) == clean_from(sort_by_start(segments), 1, <<>>)

\* The list optimized_segments when the loop over the segments ends.
RECURSIVE optimized_from(_, _)
optimized_from(segments, k) ==
    IF k > Len(segments) THEN <<>>
    ELSE LET segment == segments[k]
             duration == segment.end - segment.start
             min_duration == Max(Second, Len(segment.text) * PerCharacter)
             extended == IF duration < min_duration
                         THEN [segment EXCEPT !.end = segment.start + min_duration]
                         ELSE segment
         IN  (IF strip(segment.text) = "" THEN <<>>
              ELSE IF duration > max_duration THEN _split_long_segment(extended, max_duration)
              ELSE <<extended>>)
             \o optimized_from(segments, k + 1)

_optimize_segments_for_subtitles(segments) == _remove_overlaps(optimized_from(segments, 1))

\* A text of 144 characters and 29 words: at 0.05 s per character its
\* minimum duration, 7.2 s, is above the ceiling.
Words35 == "word word word word word word word "

LongText == Words35 \o Words35 \o Words35 \o Words35 \o "done"

\* The segments the lists normalized are made of: well-formed ones that
\* touch or overlap, zero-length, inverted and too short ones, blank
\* text, and segments at and above the ceiling with one, two, four and
\* many words.
RawSegments ==
    { Segment(0, 120, "hi", Some(80)),
      Segment(120, 300, "hi there", Some(80)),
      Segment(60, 150, "hi there", Some(50)),
      Segment(300, 300, "hi", None),
      Segment(240, 180, "hi there", Some(80)),
      Segment(0, 30, "hi there", Some(80)),
      Segment(60, 60, " ", Some(10)),
      Segment(300, 720, "one two three four", Some(80)),
      Segment(0, 480, "one two three four", Some(80)),
      Segment(0, 840, "hi there", Some(80)),
      Segment(0, 480, "hi", Some(80)),
      Segment(0, 300, LongText, Some(80)),
      Segment(0, 426, LongText, Some(80)),
      Segment(0, 432, LongText, Some(80)),
      Segment(0, 480, LongText, Some(80)) }

\* Longest list normalized.
MaxInput == 2

RECURSIVE ListsOfLength(_)
ListsOfLength(n) ==
    IF n = 0 THEN {<<>>}
    ELSE {Append(l, s) : l \in ListsOfLength(n - 1), s \in RawSegments}

RawSegmentLists == UNION {ListsOfLength(n) : n \in 0..MaxInput}

Duration(segment) == segment.end - segment.start

NormalizerInit ==
    /\ Idle
    /\ call \in
         {[fn |-> "_optimize_segments_for_subtitles", pc |-> "called",
           segments |-> segments, result |-> None] : segments \in RawSegmentLists}
         \cup
         {[fn |-> "_split_long_segment", pc |-> "called",
           segment |-> segment, result |-> None] :
              segment \in {s \in RawSegments : Duration(s) > max_duration}}

\* generate_srt_content and create_subtitle_file normalize the segments
\* they are given.
optimize_segments_returns ==
    /\ call.fn = "_optimize_segments_for_subtitles" /\ call.pc = "called"
    /\ call' = [call EXCEPT !.pc = "returned",
                            !.result = Some(_optimize_segments_for_subtitles(call.segments))]

\* The split of one segment longer than the ceiling, as the loop calls it.
split_long_segment_returns ==
    /\ call.fn = "_split_long_segment" /\ call.pc = "called"
    /\ call' = [call EXCEPT !.pc = "returned",
                            !.result = Some(_split_long_segment(call.segment, max_duration))]

NormalizerNext ==
    \/ optimize_segments_returns /\ StaysIdle
    \/ split_long_segment_returns /\ StaysIdle

NormalizerSpec == NormalizerInit /\ [][NormalizerNext]_vars

Normalized == call.fn = "_optimize_segments_for_subtitles" /\ call.pc = "returned"

Split == call.fn = "_split_long_segment" /\ call.pc = "returned"

\* C23: whatever list is normalized, the list returned is sorted by
\* start, every segment of it ends after it starts, and every segment
\* but the first starts no earlier than the one before it ends.
C23_NormalizedTimelineIsOrdered ==
    Normalized =>
        LET out == Get(call.result)
        IN  /\ \A k \in 1..Len(out) : out[k].end > out[k].start
            /\ \A k \in 2..Len(out) :
                   /\ out[k].start >= out[k - 1].start
                   /\ out[k].start >= out[k - 1].end

\* An unsorted list with an inverted segment in it came back with two
\* segments, the second one moved behind the first.
C23_Witness ==
    /\ Normalized
    /\ Len(call.segments) = 2
    /\ call.segments[1].start > call.segments[2].start
    /\ call.segments[1].end < call.segments[1].start
    /\ Len(Get(call.result)) = 2
    /\ Get(call.result)[2].start = Get(call.result)[1].end + gap

RECURSIVE SumOfDurations(_)
SumOfDurations(parts) ==
    IF Len(parts) = 0 THEN 0 ELSE Duration(parts[1]) + SumOfDurations(Tail(parts))

\* C24: a segment of two words or more and of duration D above the
\* ceiling is split into floor(D / 7.0) + 1 parts; the first starts where
\* the segment starts, each next one where the one before ends, their
\* durations add up to D, and their texts joined by single spaces are the
\* segment's text, however few the words.
C24_SplitPartsRebuildTheSegment ==
    (Split /\ Len(split_words(call.segment.text)) >= 2
           /\ Duration(call.segment) > max_duration) =>
        LET parts == Get(call.result)
        IN  /\ Len(parts) = (Duration(call.segment) \div max_duration) + 1
            /\ parts[1].start = call.segment.start
            /\ \A k \in 2..Len(parts) : parts[k].start = parts[k - 1].end
            /\ SumOfDurations(parts) = Duration(call.segment)
            /\ join(" ", [k \in 1..Len(parts) |-> parts[k].text]) = call.segment.text

MinDuration(segment) == Max(Second, Len(segment.text) * PerCharacter)

\* A list the normalizer has nothing to repair in.
ValidTimeline(segments) ==
    /\ \A k \in 1..Len(segments) :
           /\ strip(segments[k].text) # ""
           /\ Duration(segments[k]) >= MinDuration(segments[k])
           /\ Duration(segments[k]) <= max_duration
    /\ \A k \in 2..Len(segments) :
           /\ segments[k].start >= segments[k - 1].start
           /\ segments[k].start >= segments[k - 1].end

\* C25: a list that is sorted by start, in which no segment starts before
\* the one before it ends, and whose segments all have text and a
\* duration between their minimum and 7.0 s, comes back from the
\* normalizer as it went in: as many segments, in the same order, with the
\* same start, end and text.
C25_ValidTimelineUnchanged ==
    (Normalized /\ ValidTimeline(call.segments)) =>
        /\ Len(Get(call.result)) = Len(call.segments)
        /\ \A k \in 1..Len(call.segments) :
               /\ Get(call.result)[k].start = call.segments[k].start
               /\ Get(call.result)[k].end = call.segments[k].end
               /\ Get(call.result)[k].text = call.segments[k].text

\* A valid list of two segments, the second starting at the very moment
\* the first ends, has been normalized.
C25_Witness ==
    /\ Normalized
    /\ ValidTimeline(call.segments)
    /\ Len(call.segments) = 2
    /\ call.segments[2].start = call.segments[1].end

\* C28: no segment the normalizer returns has an empty or whitespace-only
\* text, the parts of a split segment included.
C28_NormalizedTextNeverBlank ==
    Normalized => \A k \in 1..Len(Get(call.result)) : strip(Get(call.result)[k].text) # ""

\* C29: no segment of more than one word that the normalizer returns is
\* longer than 7.0 s, the minimum-duration step having been applied before
\* the length is tested.
C29_MultiWordSegmentsWithinCeiling ==
    Normalized =>
        \A k \in 1..Len(Get(call.result)) :
            Len(split_words(Get(call.result)[k].text)) > 1 =>
                Duration(Get(call.result)[k]) <= max_duration

\* C30: every segment the normalizer returns lasts at least
\* max(1.0, 0.05 x the number of characters of its text) seconds, also
\* when overlap removal moved its start or when it is a part of a split.
C30_NormalizedSegmentsLastTheirMinimum ==
    Normalized =>
        \A k \in 1..Len(Get(call.result)) :
            Duration(Get(call.result)[k]) >= MinDuration(Get(call.result)[k])

\* ======================================================================
\* Further properties of the orchestrator.
\* ======================================================================
\* C38: a download request for a registered job that is completed and holds
\* a result is answered 200 and hands the job to the purge, whatever the
\* filename the video was uploaded under, a filename without a '.' included;
\* it never fails and leaves the completed job registered.
C38_DownloadOfCompletedJobSucceeds ==
    [][\A j \in active_jobs :
        (response'.op = "download" /\ response'.job_id = j
            /\ jobs[j].status = "completed" /\ ~IsNone(jobs[j].result_video)) =>
              /\ response'.status_code = 200
              /\ j \in cleanups'
      ]_vars

\* The id was registered once and is in the registry no more: cleanup_job
\* is the only code that deletes a key of active_jobs.
Purged(j) == j \notin active_jobs /\ jobs[j] # NoJob

\* C36: an id that the download has purged never comes back into the
\* registry; a background task of that job that runs on or fails after the
\* purge puts nothing under it.
C36_PurgedIdNeverReturns ==
    [][\A j \in JobIds : Purged(j) => j \notin active_jobs']_vars

\* A task of a purged job has just failed: its except clause ran.
C36_Witness ==
    \E j \in JobIds :
        /\ Purged(j)
        /\ response.job_id = j
        /\ response.op \in TaskKinds
        /\ response.detail # ""

\* C35: when the segments of a continued job went through the translation
\* engine, every segment of the edited transcription that has text is still
\* there in the subtitle text handed to the render: the segment at the same
\* place of the final list has an entry, whatever the engine answered.
C35_TranslationDropsNoSubtitle ==
    \A task \in Tasks :
        (/\ task.kind = CONTINUE
         /\ task.pc = "render_video"
         /\ lower(Get(task.source_language)) # lower(Get(task.target_language))) =>
            \A i \in 1..Len(task.edited_transcription.segments) :
                task.edited_transcription.segments[i] # "" =>
                    \E entry \in Range(task.srt_content) : entry.text = task.segments[i]

\* C37: a continue request for a job at the checkpoint is acknowledged
\* whatever its payload holds; when the continuation then finds a required
\* key missing, the job goes in that one step from "transcription_complete"
\* to "failed" with progress 0, "translating" never having been written;
\* and no later step brings the job back to "transcription_complete".
C37_MalformedPayloadFailsTheJob ==
    [][\A j \in active_jobs :
        /\ (response'.op = "continue" /\ response'.job_id = j
                /\ jobs[j].status = "transcription_complete") =>
              /\ response'.status_code = 200
              /\ scheduled'[j][CONTINUE] = scheduled[j][CONTINUE] + 1
        /\ (response'.op = CONTINUE /\ response'.job_id = j
                /\ response'.detail = MalformedPayload) =>
              /\ jobs[j].status = "transcription_complete"
              /\ jobs'[j].status = "failed"
              /\ jobs'[j].progress = 0
              /\ Get(response'.body).writes = <<"failed">>
        /\ (jobs[j].status = "failed" /\ jobs[j].error = Some(MalformedPayload)
                /\ j \in active_jobs') =>
              jobs'[j].status # "transcription_complete"
      ]_vars

\* ======================================================================
\* The conversion of the engine's answer: _convert_groq_result.
\* ======================================================================
\* Times are in sixtieths of a second as above: the speaking rate of 2.5
\* words a second makes 24 sixtieths a word.  Confidences and log
\* probabilities are in hundredths.
PerWord == 24

chunk_size == 10

\* A segment of the engine's answer: a dict; a key it lacks is None here.
EngineSegment(start, end, text, avg_logprob, confidence) ==
    [start |-> start, end |-> end, text |-> text,
     avg_logprob |-> avg_logprob, confidence |-> confidence]

\* float(segment.get(key, 0.0))
float_or_zero(value) == IF IsNone(value) THEN 0 ELSE Get(value)

\* The confidence of a segment: from avg_logprob, else from confidence,
\* else 0.8, and held between 0.1 and 1.0.
confidence_of(segment) ==
    LET confidence ==
            IF ~IsNone(segment.avg_logprob)
            THEN Max(10, Min(100, (Get(segment.avg_logprob) + 300) \div 3))
            ELSE IF ~IsNone(segment.confidence) THEN Get(segment.confidence)
            ELSE 80
    IN  Max(10, Min(100, confidence))

\* max(1.0, words / 2.5)
estimated_duration(text) == Max(Second, Len(split_words(text)) * PerWord)

end_before_start(end_time, start_time) == end_time < start_time

end_not_after_start(end_time, start_time) == end_time <= start_time

\* The loop over result['segments'] from segment k on.
RECURSIVE converted_from(_, _)
converted_from(raw, k) ==
    IF k > Len(raw) THEN <<>>
    ELSE LET segment == raw[k]
             start_time == float_or_zero(segment.start)
             end_time == float_or_zero(segment.end)
             text == strip(segment.text)
         IN  (IF text = "" THEN <<>>
              ELSE IF _is_likely_hallucination(text) THEN <<>>
              ELSE <<Segment(start_time,
                             IF end_not_after_start(end_time, start_time)
                             THEN start_time + estimated_duration(text)
                             ELSE end_time,
                             text, Some(confidence_of(segment)))>>)
             \o converted_from(raw, k + 1)

SentenceEnds == {".", "!", "?"}

\* re.split(r'[.!?]+', text): the pieces between the runs of sentence ends.
RECURSIVE re_split(_)
re_split(text) ==
    LET ends == {k \in 1..Len(text) : Char(text, k) \in SentenceEnds}
        at == CHOOSE k \in ends : \A other \in ends : k <= other
        after == {k \in at..Len(text) : Char(text, k) \notin SentenceEnds}
        next == IF after = {} THEN Len(text) + 1
                ELSE CHOOSE k \in after : \A other \in after : k <= other
    IN  IF ends = {} THEN <<text>>
        ELSE <<SubSeq(text, 1, at - 1)>> \o re_split(SubSeq(text, next, Len(text)))

Stripped(parts) == [k \in 1..Len(parts) |-> strip(parts[k])]

\* words[i:i + chunk_size] joined by a space, for i = 0, chunk_size, ...
RECURSIVE chunks(_)
chunks(words) ==
    IF Len(words) = 0 THEN <<>>
    ELSE <<join(" ", SubSeq(words, 1, Min(chunk_size, Len(words))))>>
         \o chunks(SubSeq(words, chunk_size + 1, Len(words)))

_split_text_into_sentences(text) ==
    LET sentences == Stripped(re_split(text))
        cleaned_sentences == SelectSeq(sentences, LAMBDA sentence : Len(sentence) > 3)
        parts == SelectSeq(Stripped(split(text, ",")), LAMBDA part : part # "")
        fallback == IF find(text, ",") # -1 THEN parts ELSE chunks(split_words(text))
    IN  IF Len(cleaned_sentences) > 0 THEN cleaned_sentences
        ELSE IF Len(fallback) > 0 THEN fallback
        ELSE <<text>>

\* The loop over the sentences of a text-only answer from sentence i on.
RECURSIVE text_segments(_, _, _)
text_segments(sentences, i, current_time) ==
    IF i > Len(sentences) THEN <<>>
    ELSE LET sentence_duration == estimated_duration(sentences[i])
         IN  <<Segment(current_time, current_time + sentence_duration,
                       sentences[i], Some(80))>>
             \o text_segments(sentences, i + 1, current_time + sentence_duration)

\* The segments of the TranscriptionResult returned for an engine answer
\* [segments, text]; a missing key is the empty list, the empty text.
_convert_groq_result(result) ==
    IF Len(result.segments) > 0 THEN converted_from(result.segments, 1)
    ELSE IF strip(result.text) # ""
         THEN text_segments(_split_text_into_sentences(strip(result.text)), 1, 0)
    ELSE <<>>

\* The engine segments tried: well-timed ones that overlap and come out of
\* order, zero-length, inverted and missing timestamps, blank text and
\* noise, and the three sources of the confidence.
EngineSegments ==
    { EngineSegment(Some(0), Some(120), "hi", None, None),
      EngineSegment(Some(90), Some(300), " hi there ", Some(-60), None),
      EngineSegment(Some(30), Some(90), "late", None, Some(150)),
      EngineSegment(Some(120), Some(120), "hi there", Some(-330), None),
      EngineSegment(Some(300), Some(180), "one two three", None, Some(5)),
      EngineSegment(None, None, "hello", None, None),
      EngineSegment(Some(60), None, "a b c d", Some(30), Some(50)),
      EngineSegment(Some(0), Some(60), "  ", None, None),
      EngineSegment(Some(0), Some(60), "??", None, None) }

\* Longest list of engine segments converted.
MaxRaw == 2

RECURSIVE EngineListsOfLength(_)
EngineListsOfLength(n) ==
    IF n = 0 THEN {<<>>}
    ELSE {Append(l, s) : l \in EngineListsOfLength(n - 1), s \in EngineSegments}

EngineSegmentLists == UNION {EngineListsOfLength(n) : n \in 1..MaxRaw}

\* The texts of the answers without segments: sentences, text without
\* sentence ends with and without commas, short pieces, more than ten
\* words, and text that is blank or punctuation only.
EngineTexts ==
    { "", "   ", "hi", "...", ",", "a,b", " a, ,b ", "Hi. Ok.",
      "hello, world", "a, b. c", "well, yes. no, never!",
      " Hello there. How are you? ",
      "one two three four five six seven eight nine ten eleven twelve",
      "a. b. c. d. e. f. g. h. i. j. k. l.",
      "so it goes on and on and on and on and on" }

EngineResults ==
    [segments : EngineSegmentLists, text : {"", "hi there"}]
    \cup [segments : {<<>>}, text : EngineTexts]

ConvertInit ==
    /\ Idle
    /\ call \in
         {[fn |-> "_convert_groq_result", pc |-> "converting",
           result |-> result, segments |-> <<>>] : result \in EngineResults}
         \cup
         {[fn |-> "_split_text_into_sentences", pc |-> "called",
           text |-> strip(text), sentences |-> <<>>] :
              text \in {t \in EngineTexts : strip(t) # ""}}

convert_groq_result_returns ==
    /\ call.fn = "_convert_groq_result" /\ call.pc = "converting"
    /\ call' = [call EXCEPT !.pc = "converted",
                            !.segments = _convert_groq_result(call.result)]

\* The split of the stripped text of a text-only answer, as the
\* conversion calls it.
split_text_into_sentences_returns ==
    /\ call.fn = "_split_text_into_sentences" /\ call.pc = "called"
    /\ call' = [call EXCEPT !.pc = "returned",
                            !.sentences = _split_text_into_sentences(call.text)]

ConvertNext ==
    \/ convert_groq_result_returns /\ StaysIdle
    \/ split_text_into_sentences_returns /\ StaysIdle

ConvertSpec == ConvertInit /\ [][ConvertNext]_vars

Converted == call.fn = "_convert_groq_result" /\ call.pc = "converted"

\* The engine segments that become segments of the result, in order.
Emitted(raw) ==
    SelectSeq(raw, LAMBDA segment :
        strip(segment.text) # "" /\ ~_is_likely_hallucination(strip(segment.text)))

\* C32: every segment of a converted answer ends after it starts; a kept
\* engine segment whose end is missing, equal to or before its start ends
\* max(1.0, words / 2.5) seconds after its start, and every other kept
\* segment has the start and the end the engine gave it.
C32_EmittedSegmentsEndAfterStart ==
    Converted =>
        /\ \A k \in 1..Len(call.segments) : call.segments[k].end > call.segments[k].start
        /\ Len(call.result.segments) > 0 =>
             LET raw == Emitted(call.result.segments)
             IN  /\ Len(call.segments) = Len(raw)
                 /\ \A k \in 1..Len(raw) :
                      LET start == float_or_zero(raw[k].start)
                          end == float_or_zero(raw[k].end)
                          words == Len(split_words(raw[k].text))
                      IN  /\ call.segments[k].start = start
                          /\ call.segments[k].end =
                               IF end <= start THEN start + Max(Second, words * PerWord)
                               ELSE end

\* An answer with a zero-length segment and a well-timed one has been
\* converted: the first was given an estimated end, the second kept its own.
C32_Witness ==
    /\ Converted
    /\ Len(call.result.segments) = 2
    /\ call.result.segments[1].start = call.result.segments[1].end
    /\ Len(call.segments) = 2
    /\ call.segments[1].end = call.segments[1].start + 2 * PerWord + 12
    /\ call.segments[2].end = Get(call.result.segments[2].end)

HasAny(text, chars) == \E k \in 1..Len(text) : Char(text, k) \in chars

Texts(segments) == [k \in 1..Len(segments) |-> segments[k].text]

\* C33: the segments made of an answer that has a text and no segments.
\* When the text has a sentence end in it, every segment is one of the
\* pieces between the sentence ends that have text; when it has none but
\* has a comma, there is one segment for each part between the commas
\* that has text, in the order of the parts; when it has neither, its
\* words are taken ten at a time, ceil(words / 10) segments.
C33_TextOnlyAnswerSplitBySentenceCommaOrTenWords ==
    (Converted /\ Len(call.result.segments) = 0 /\ strip(call.result.text) # "") =>
        LET text == strip(call.result.text)
            texts == Texts(call.segments)
            words == split_words(text)
        IN  IF HasAny(text, SentenceEnds)
            THEN LET pieces == SelectSeq(Stripped(re_split(text)), LAMBDA piece : piece # "")
                 IN  Len(pieces) > 0 =>
                         /\ Len(texts) >= 1
                         /\ \A k \in 1..Len(texts) : texts[k] \in Range(pieces)
            ELSE IF HasAny(text, {","})
            THEN LET parts == SelectSeq(Stripped(split(text, ",")), LAMBDA part : part # "")
                 IN  Len(parts) > 0 => texts = parts
            ELSE /\ Len(texts) = (Len(words) + chunk_size - 1) \div chunk_size
                 /\ \A k \in 1..Len(texts) :
                        texts[k] = join(" ", SubSeq(words, chunk_size * (k - 1) + 1,
                                                    Min(chunk_size * k, Len(words))))

\* ======================================================================
\* From the upload to the checkpoint, with the engine's answer and the
\* times of its segments.
\* ======================================================================
\* transcribe_audio after the engine has answered: the answer converted.
transcribe_audio(result) ==
    [segments |-> _convert_groq_result(result), detected_language |-> Some("en")]

\* The engine's answers to the transcription request of a job: segments in
\* order, with a zero-length one, overlapping, out of order, a text without
\* segments, and nothing.
EngineAnswers ==
    { [segments |-> <<EngineSegment(Some(0), Some(120), "hi", None, None),
                      EngineSegment(Some(120), Some(120), "hi there", Some(-330), None)>>,
       text |-> ""],
      [segments |-> <<EngineSegment(Some(0), Some(120), "hi", None, None),
                      EngineSegment(Some(90), Some(300), " hi there ", Some(-60), None)>>,
       text |-> ""],
      [segments |-> <<EngineSegment(Some(90), Some(300), " hi there ", Some(-60), None),
                      EngineSegment(Some(30), Some(90), "late", None, Some(150))>>,
       text |-> ""],
      [segments |-> <<>>, text |-> " Hello there. How are you? "],
      [segments |-> <<>>, text |-> ""] }

CheckpointNext ==
    \/ \E j \in OneJob, content_ok \in BOOLEAN :
           upload_video(j, "clip.mp4", content_ok) /\ UNCHANGED call
    \/ \E j \in OneJob, tl \in Languages, sl \in SourceLanguageArgs :
           process_video(j, tl, sl) /\ UNCHANGED call
    \/ \E j \in OneJob : get_transcription(j) /\ UNCHANGED call
    \/ \E task \in Tasks : process_video_background(task) /\ UNCHANGED call
    \/ \E task \in Tasks, returncode \in ReturnCodes :
           extract_audio_returns(task, returncode) /\ UNCHANGED call
    \/ \E task \in Tasks :
           \E result \in {None} \cup {Some(transcribe_audio(r)) : r \in EngineAnswers} :
               transcribe_audio_returns(task, result) /\ UNCHANGED call

CheckpointSpec == Init /\ [][CheckpointNext]_vars

\* C31: whenever a job is at the checkpoint, the segments stored for the
\* review are sorted by start and no segment starts before an earlier one
\* ends.
C31_CheckpointSegmentsOrdered ==
    \A j \in active_jobs :
        (jobs[j].status = "transcription_complete" /\ ~IsNone(jobs[j].transcription_result)) =>
            LET segments == Get(jobs[j].transcription_result).segments
            IN  \A i \in 1..Len(segments) : \A k \in (i + 1)..Len(segments) :
                    /\ segments[k].start >= segments[i].start
                    /\ segments[k].start >= segments[i].end

\* ======================================================================
\* Two jobs side by side.
\* ======================================================================
\* Every request and every task step, for either job; the inputs are one
\* filename, the source language left to the engine, one edited
\* transcription, and an engine translation that is either the original or
\* "hola".
TwoJobNext ==
    \/ \E j \in JobIds : upload_video(j, "clip.mp4", TRUE) /\ UNCHANGED call
    \/ \E j \in JobIds, tl \in Languages : process_video(j, tl, None) /\ UNCHANGED call
    \/ \E j \in JobIds : get_job_status(j) /\ UNCHANGED call
    \/ \E j \in JobIds : get_transcription(j) /\ UNCHANGED call
    \/ \E j \in JobIds :
           continue_with_transcription(j, [wellformed |-> TRUE, segments |-> <<"hi">>])
           /\ UNCHANGED call
    \/ \E j \in JobIds : download_video(j) /\ UNCHANGED call
    \/ \E j \in JobIds : cleanup_job(j) /\ UNCHANGED call
    \/ \E j \in JobIds : preview_video(j) /\ UNCHANGED call
    \/ \E task \in Tasks : process_video_background(task) /\ UNCHANGED call
    \/ \E task \in Tasks, returncode \in ReturnCodes :
           extract_audio_returns(task, returncode) /\ UNCHANGED call
    \/ \E task \in Tasks, result \in TranscriptionResults :
           transcribe_audio_returns(task, Some(result)) /\ UNCHANGED call
    \/ \E task \in Tasks : continue_processing_after_transcription(task) /\ UNCHANGED call
    \/ \E task \in Tasks, translated \in {None, Some(<<"hola">>)} :
           translate_segments_returns(task, translated) /\ UNCHANGED call
    \/ \E task \in Tasks : render_video_returns(task, 0) /\ UNCHANGED call

TwoJobSpec == Init /\ [][TwoJobNext]_vars

\* The step leaves the record of job b as it is and b where it is, in the
\* registry or out of it.
Untouched(b) == jobs'[b] = jobs[b] /\ (b \in active_jobs' <=> b \in active_jobs)

\* C34: a step taken for one job, a request or a step of one of its
\* background tasks or its purge, leaves every other job's record unchanged
\* and every other job in the registry.
C34_JobsIsolated ==
    [][\A b \in JobIds :
          (b # response'.job_id /\ b \notin (cleanups \ cleanups')) => Untouched(b)
      ]_vars

\* One job has just been completed by its task while the other is being
\* transcribed.
C34_Witness ==
    \E a \in JobIds, b \in JobIds :
        /\ a # b
        /\ response.job_id = a
        /\ response.op = CONTINUE
        /\ jobs[a].status = "completed"
        /\ jobs[b].status = "transcribing"

====
